---- MODULE Spec2Model ----
(***************************************************************************)
(* Model of the streaming trajectory pipeline of trajectory_processor.py:  *)
(* LowPassFilter, OneEuroFilter and TrajectoryProcessor.                   *)
(*                                                                         *)
(* Number representation.  The program computes in floating point; the     *)
(* model computes in fixed point:                                          *)
(*   positions      integer millimetres                                    *)
(*   timestamps, dt integer milliseconds  (0.5 s = 500, 0.033 s = 33)      *)
(*   velocities     integer millimetres per second                         *)
(*   cutoffs        integer centi-hertz   (1.5 Hz = 150)                   *)
(*   alpha          integer thousandths   (1.0 = AlphaScale)               *)
(* Every division rounds down, as \div does.  An absent value (None) is    *)
(* the empty tuple; a present time t is the tuple <<t>>.                   *)
(***************************************************************************)
EXTENDS Integers, Sequences, FiniteSets, TLC

VARIABLES
    last_valid_pos,   \* self.last_valid_pos   : None or <<x, y, z>>
    last_valid_time,  \* self.last_valid_time  : ms
    velocity,         \* self.velocity         : <<vx, vy, vz>>
    prev_pos,         \* self.prev_pos         : None or <<x, y, z>>
    prev_time,        \* self.prev_time        : None or <<t>>
    frame_count,      \* self.frame_count
    one_euro_filter,  \* self.one_euro_filter  : x_filter, dx_filter, last_timestamp
    shot_count,       \* the recorder's cumulative shot counter
    call,             \* the last operation: its arguments, locals and collaborator calls
    ret,              \* the last operation's return value
    is_evaluating,        \* processor: self.is_evaluating
    current_serve_buffer, \* processor: self.current_serve_buffer
    is_evaluating_serve,  \* simulator: self.is_evaluating_serve
    serve_data,           \* simulator: self.serve_data, a sequence of [pos, time]
    stop_timers,          \* simulator: pending QTimer.singleShot(300, stop_serve_evaluation)
    report,               \* the last serve report produced (None: no report)
    points,               \* the argument of get_serve_features
    data_source,          \* simulator: self.data_source
    lcm_running,          \* simulator: self.lcm_running
    lcm_lock,             \* simulator: the holder of self.lcm_lock
    ui_pc,                \* where the UI thread stands in start_realtime_render
    worker_pc,            \* where the LCM worker thread stands in _lcm_worker
    msg,                  \* the message the worker's handler is working on
    lcm_operation_in_progress, \* simulator: self.lcm_operation_in_progress
    lcm_health_timer,     \* simulator: self.lcm_health_timer is running
    restart_timers,       \* pending QTimer.singleShot(2000, _restart_lcm_worker)
    sim_one_euro_filter   \* simulator module: an instance of its OneEuroFilter class

\* The serve capture state of the processor and of the simulator, and the
\* simulator module's own filter.
serve_vars == <<is_evaluating, current_serve_buffer, is_evaluating_serve,
                serve_data, stop_timers, report, points, sim_one_euro_filter>>

\* The simulator's real-time mode and its two threads.
thread_vars == <<data_source, lcm_running, lcm_lock, ui_pc, worker_pc, msg,
                 lcm_operation_in_progress, lcm_health_timer, restart_timers>>

vars == <<last_valid_pos, last_valid_time, velocity, prev_pos, prev_time,
          frame_count, one_euro_filter, shot_count, call, ret,
          serve_vars, thread_vars>>

\* ------------------------------------------------------------------ bounds

MaxFrames == 3

MaxShots == 1

\* The longest buffer handed to get_serve_features: one more than the 5
\* points a report needs and the simulator's own threshold.
MaxPoints == 6

\* The most messages the LCM handler takes in one run of the capture model:
\* enough to fill a capture window with more than 5 points.
MaxMessages == 6

\* The most restarts of the worker thread that may be pending at once.
MaxRestarts == 1

\* The samples the stream may deliver.  (900,1200,80) lies exactly 1500 mm
\* from (0,0,80); (900,1201,79) lies beyond 1500 mm from it; 79 and 80
\* straddle the landing height.
Positions == { <<0, 0, 80>>, <<900, 1200, 80>>, <<900, 1201, 79>> }

\* The timestamps the stream may deliver, in any order: gaps of 0, 33, 34,
\* 500 and 534 ms occur, and so do negative gaps and a first sample at time 0.
Times == {0, 33, 533, 567}

\* The buffered points get_serve_features is applied to: two points share a
\* timestamp (a zero gap with and without movement), the third is 500 ms
\* later (a positive gap forwards, a negative one backwards); the heights
\* differ, and the highest one is not the last in every buffer.
SamplePoints ==
    { [pos |-> <<0, 0, 80>>,      time |-> 33],
      [pos |-> <<300, 400, 250>>, time |-> 33],
      [pos |-> <<900, 1200, 79>>, time |-> 533] }

\* The points a caller adds to the processor's own capture buffer: the two
\* sample points 500 ms and 1500 mm apart.
SessionPoints == { p \in SamplePoints : p.pos[3] <= 80 }

\* Every buffer of at most MaxPoints sample points.
PointSeqs == UNION { [1..n -> SamplePoints] : n \in 0..MaxPoints }

\* The messages the simulator's handler receives, as <<position, time>>: the
\* second follows the first after more than the timeout and lies below the
\* landing height; the first after the second goes back in time and jumps
\* more than 1500 mm.
ServeMessages ==
    { <<<<0, 0, 80>>, 33>>, <<<<900, 1201, 79>>, 567>> }

\* The cutoffs (centi-hertz) compute_alpha is compared on: min_cutoff and
\* cutoffs reached at speeds of 0.1, 0.57 and 3.2 m/s.
Cutoffs == {150, 300, 1000, 5000}

\* ---------------------------------------------------------------- numerics

None == << >>

Zero3 == <<0, 0, 0>>

AlphaScale == 1000

Abs(a) == IF a < 0 THEN -a ELSE a

Max2(a, b) == IF a >= b THEN a ELSE b

VSub(a, b) == <<a[1] - b[1], a[2] - b[2], a[3] - b[3]>>

VAdd(a, b) == <<a[1] + b[1], a[2] + b[2], a[3] + b[3]>>

\* v * dt, v in mm/s and dt in ms: a displacement in mm.
VTimesDt(v, dt) ==
    <<(v[1] * dt) \div 1000, (v[2] * dt) \div 1000, (v[3] * dt) \div 1000>>

\* d / dt, d in mm and dt in ms: a velocity in mm/s.
VOverDt(d, dt) ==
    <<(d[1] * 1000) \div dt, (d[2] * 1000) \div dt, (d[3] * 1000) \div dt>>

SumSq(d) == d[1] * d[1] + d[2] * d[2] + d[3] * d[3]

RECURSIVE SqrtSearch(_, _, _)
SqrtSearch(n, lo, hi) ==
    IF lo >= hi THEN lo
    ELSE LET mid == (lo + hi + 1) \div 2
         IN  IF mid * mid <= n THEN SqrtSearch(n, mid, hi)
             ELSE SqrtSearch(n, lo, mid - 1)

ISqrt(n) == SqrtSearch(n, 0, 46340)

\* np.linalg.norm, rounded down.  Components above 2^14 are scaled before
\* squaring, so the magnitude keeps a relative, not an absolute, precision.
Norm(v) ==
    LET m == Max2(Abs(v[1]), Max2(Abs(v[2]), Abs(v[3])))
        k == (m \div 16384) + 1
    IN  k * ISqrt(SumSq(<<Abs(v[1]) \div k, Abs(v[2]) \div k, Abs(v[3]) \div k>>))

\* np.linalg.norm(d) > limit, exactly, for integer d and limit >= 0.
NormExceeds(d, limit) ==
    \/ Abs(d[1]) > limit
    \/ Abs(d[2]) > limit
    \/ Abs(d[3]) > limit
    \/ SumSq(d) > limit * limit

\* ------------------------------------------------------------ LowPassFilter

\* LowPassFilter(alpha): s is None until the first value arrives.
LowPassFilter(alpha) == [s |-> None, alpha |-> alpha]

\* alpha * value + (1.0 - alpha) * s, componentwise.
Blend(alpha, value, s) ==
    << (alpha * value[1] + (AlphaScale - alpha) * s[1]) \div AlphaScale,
       (alpha * value[2] + (AlphaScale - alpha) * s[2]) \div AlphaScale,
       (alpha * value[3] + (AlphaScale - alpha) * s[3]) \div AlphaScale >>

\* LowPassFilter.filter(value, alpha): the filter after the call; its s is
\* the value returned.
LowPassFilter_filter(lp, value, alpha) ==
    IF lp.s = None
    THEN [s |-> value, alpha |-> alpha]
    ELSE [s |-> Blend(alpha, value, lp.s), alpha |-> alpha]

\* ------------------------------------------------------------ OneEuroFilter

\* OneEuroFilter(min_cutoff=1.5, beta=0.15, d_cutoff=1.5), in centi-hertz.
min_cutoff == 150

beta == 15

d_cutoff == 150

\* OneEuroFilter.__init__
OneEuroFilter ==
    [x_filter |-> LowPassFilter(0), dx_filter |-> LowPassFilter(0),
     last_timestamp |-> None]

\* tau = 1.0 / (2 * math.pi * cutoff), in microseconds; 2 * pi is 710 / 113.
Tau(cutoff) == ((100000000 \div cutoff) * 113) \div 710

\* compute_alpha with tau and dt exchanged: tau / (tau + dt).
compute_alpha_Inverted(cutoff, dt) ==
    IF dt <= 0 THEN AlphaScale
    ELSE (AlphaScale * Tau(cutoff)) \div (dt * 1000 + Tau(cutoff))

\* OneEuroFilter.compute_alpha; 1 / (1 + tau / dt) is dt / (dt + tau).
compute_alpha(cutoff, dt) ==
    IF dt <= 0 THEN AlphaScale
    ELSE (AlphaScale * (dt * 1000)) \div (dt * 1000 + Tau(cutoff))

\* FilterInit with the derivative smoother left as it was.
FilterInit_KeepsDerivative(f, x, timestamp) ==
    [out |-> x,
     f   |-> [x_filter  |-> [f.x_filter EXCEPT !.s = x],
              dx_filter |-> f.dx_filter,
              last_timestamp |-> <<timestamp>>]]

\* OneEuroFilter.filter, first call: the state is seeded with the input.
FilterInit(f, x, timestamp) ==
    [out |-> x,
     f   |-> [x_filter  |-> [f.x_filter EXCEPT !.s = x],
              dx_filter |-> [f.dx_filter EXCEPT !.s = Zero3],
              last_timestamp |-> <<timestamp>>]]

\* FilterUpdate with the stored timestamp left at the previous call's.
FilterUpdate_KeepsStamp(f, x, timestamp, dt) ==
    LET dx     == VOverDt(VSub(x, f.x_filter.s), dt)
        dxf    == LowPassFilter_filter(f.dx_filter, dx, compute_alpha(d_cutoff, dt))
        edx    == dxf.s
        cutoff == min_cutoff + beta * Norm(edx)
        xf     == LowPassFilter_filter(f.x_filter, x, compute_alpha(cutoff, dt))
    IN  [out |-> xf.s,
         f   |-> [x_filter |-> xf, dx_filter |-> dxf,
                  last_timestamp |-> f.last_timestamp]]

\* OneEuroFilter.filter, dt > 0: derivative smoother, dynamic cutoff,
\* position smoother.
FilterUpdate(f, x, timestamp, dt) ==
    LET dx     == VOverDt(VSub(x, f.x_filter.s), dt)
        dxf    == LowPassFilter_filter(f.dx_filter, dx, compute_alpha(d_cutoff, dt))
        edx    == dxf.s
        cutoff == min_cutoff + beta * Norm(edx)
        xf     == LowPassFilter_filter(f.x_filter, x, compute_alpha(cutoff, dt))
    IN  [out |-> xf.s,
         f   |-> [x_filter |-> xf, dx_filter |-> dxf,
                  last_timestamp |-> <<timestamp>>]]

\* OneEuroFilter.filter with the timestamp stored before the dt test.
OneEuroFilter_filter_StampFirst(f, x, timestamp) ==
    IF f.last_timestamp = None THEN FilterInit(f, x, timestamp)
    ELSE LET dt == timestamp - f.last_timestamp[1]
         IN  IF dt <= 0
             THEN [out |-> f.x_filter.s,
                   f |-> [f EXCEPT !.last_timestamp = <<timestamp>>]]
             ELSE FilterUpdate(f, x, timestamp, dt)

\* OneEuroFilter.filter with a stale sample smoothed with compute_alpha's
\* dt <= 0 coefficient (1.0) instead of being skipped.
OneEuroFilter_filter_StaleSmoothed(f, x, timestamp) ==
    IF f.last_timestamp = None THEN FilterInit(f, x, timestamp)
    ELSE LET dt == timestamp - f.last_timestamp[1]
         IN  IF dt <= 0
             THEN LET xf == LowPassFilter_filter(f.x_filter, x,
                                                 compute_alpha(min_cutoff, dt))
                  IN  [out |-> xf.s, f |-> [f EXCEPT !.x_filter = xf]]
             ELSE FilterUpdate(f, x, timestamp, dt)

\* OneEuroFilter.filter(x, timestamp): the value returned (out) and the
\* filter after the call (f).
OneEuroFilter_filter(f, x, timestamp) ==
    IF f.last_timestamp = None THEN FilterInit(f, x, timestamp)
    ELSE LET dt == timestamp - f.last_timestamp[1]
         IN  IF dt <= 0 THEN [out |-> f.x_filter.s, f |-> f]
             ELSE FilterUpdate(f, x, timestamp, dt)

\* ------------------------- OneEuroFilter of ball_trajectory_simulator.py

\* OneEuroFilter.__init__ of the simulator module, built with the same
\* min_cutoff, beta and d_cutoff: compute_alpha without a dt answers 1.0,
\* which is what the two smoothers start with.  LowPassFilter's y is stored
\* and never read.
SimOneEuroFilter ==
    [x_filter |-> LowPassFilter(AlphaScale), dx_filter |-> LowPassFilter(AlphaScale),
     last_timestamp |-> None]

\* te = 1.0 / cutoff; tau = 1.0 / (2 * math.pi * te): cutoff / (2 * pi), in
\* microseconds.
SimTau(cutoff) == ((cutoff * 1130) \div 71) * 100

\* The simulator module's compute_alpha(cutoff, dt) with a dt given; filter
\* never hands it a dt <= 0.
sim_compute_alpha(cutoff, dt) ==
    (AlphaScale * (dt * 1000)) \div (dt * 1000 + SimTau(cutoff))

\* The simulator module's OneEuroFilter.filter, dt > 0.
SimFilterUpdate(f, x, timestamp, dt) ==
    LET dx     == VOverDt(VSub(x, f.x_filter.s), dt)
        dxf    == LowPassFilter_filter(f.dx_filter, dx,
                                       sim_compute_alpha(d_cutoff, dt))
        edx    == dxf.s
        cutoff == min_cutoff + beta * Norm(edx)
        xf     == LowPassFilter_filter(f.x_filter, x,
                                       sim_compute_alpha(cutoff, dt))
    IN  [out |-> xf.s,
         f   |-> [x_filter |-> xf, dx_filter |-> dxf,
                  last_timestamp |-> <<timestamp>>]]

\* The simulator module's OneEuroFilter.filter(x, timestamp): the value
\* returned (out) and the filter after the call (f).
SimOneEuroFilter_filter(f, x, timestamp) ==
    IF f.last_timestamp = None THEN FilterInit(f, x, timestamp)
    ELSE LET dt == timestamp - f.last_timestamp[1]
         IN  IF dt <= 0 THEN [out |-> f.x_filter.s, f |-> f]
             ELSE SimFilterUpdate(f, x, timestamp, dt)

\* ------------------------------------------------------ TrajectoryProcessor

max_jump_distance == 1500

timeout_threshold == 500

\* dt = 0.033, the step assumed for the first sample of a session.
default_dt == 33

\* if filtered_pos[2] < 80
landing_height == 80

\* The processor's fields as one record.
Self ==
    [last_valid_pos  |-> last_valid_pos,
     last_valid_time |-> last_valid_time,
     velocity        |-> velocity,
     prev_pos        |-> prev_pos,
     prev_time       |-> prev_time,
     frame_count     |-> frame_count,
     one_euro_filter |-> one_euro_filter]

\* TrajectoryProcessor.__init__
NewProcessor ==
    [last_valid_pos  |-> None,
     last_valid_time |-> 0,
     velocity        |-> Zero3,
     prev_pos        |-> None,
     prev_time       |-> None,
     frame_count     |-> 0,
     one_euro_filter |-> OneEuroFilter]

\* CountFrame with the increment left out.
CountFrame_Skip(s) == s

\* self.frame_count += 1
CountFrame(s) == [s EXCEPT !.frame_count = @ + 1]

\* Section A: dt = timestamp - self.last_valid_time, computed only when
\* last_valid_time > 0.
Elapsed(lvt, timestamp) == IF lvt > 0 THEN <<timestamp - lvt>> ELSE None

\* Section A: is the sample the start of a new session?
IsNewSession(lvt, timestamp) ==
    IF lvt > 0 THEN timestamp - lvt > timeout_threshold ELSE TRUE

\* Section A: the time step used by the motion model and the velocity.
StepDt(lvt, timestamp) ==
    IF IsNewSession(lvt, timestamp) THEN default_dt ELSE timestamp - lvt

\* Section B: predicted_pos = last_valid_pos + velocity * dt
PredictedPos(s, dt) == VAdd(s.last_valid_pos, VTimesDt(s.velocity, dt))

\* Section B: the motion model is consulted.
ChecksJump(s, is_new_session) == ~is_new_session /\ s.last_valid_pos # None

\* np.linalg.norm(d) >= limit, for integer d and limit >= 0.
NormReaches(d, limit) == NormExceeds(d, limit) \/ SumSq(d) = limit * limit

\* Rejects with the threshold test made inclusive.
Rejects_Inclusive(s, is_new_session, dt, pos) ==
    /\ ChecksJump(s, is_new_session)
    /\ NormReaches(VSub(pos, PredictedPos(s, dt)), max_jump_distance)

\* Rejects without the new-session exemption.
Rejects_EverySession(s, is_new_session, dt, pos) ==
    /\ s.last_valid_pos # None
    /\ NormExceeds(VSub(pos, PredictedPos(s, dt)), max_jump_distance)

\* Section B: the sample is a noise point.
Rejects(s, is_new_session, dt, pos) ==
    /\ ChecksJump(s, is_new_session)
    /\ NormExceeds(VSub(pos, PredictedPos(s, dt)), max_jump_distance)

\* Section B: return None, 0, {"frame_count": ..., "timeout": False}
RejectedEvents(s) == [frame_count |-> s.frame_count, timeout |-> FALSE]

\* RejectSample with last_valid_time moved to the rejected sample's time.
RejectSample_AdvancesTime(s, pos, timestamp) ==
    [s EXCEPT !.last_valid_time = timestamp]

\* RejectSample with the history update of section G done before the return.
RejectSample_KeepsHistory(s, pos, timestamp) ==
    [s EXCEPT !.prev_pos = pos, !.prev_time = <<timestamp>>]

\* Section B: the processor as the early return leaves it.
RejectSample(s, pos, timestamp) == s

\* SessionReset with the filter left as it was before the gap.
SessionReset_KeepsFilter(s, is_new_session) ==
    IF is_new_session THEN [s EXCEPT !.velocity = Zero3] ELSE s

\* Section C: a new session zeroes the velocity and clears the filter.
SessionReset(s, is_new_session) ==
    IF is_new_session
    THEN [s EXCEPT !.velocity = Zero3,
                   !.one_euro_filter.last_timestamp = None,
                   !.one_euro_filter.x_filter.s = None,
                   !.one_euro_filter.dx_filter.s = None]
    ELSE s

\* Section E: does this sample update the velocity?
UpdatesVelocity(s, dt) == s.last_valid_pos # None /\ dt > 0

\* BlendVelocity with the two weights exchanged.
BlendVelocity_Swapped(current_v, v) ==
    << (2 * current_v[1] + 8 * v[1]) \div 10,
       (2 * current_v[2] + 8 * v[2]) \div 10,
       (2 * current_v[3] + 8 * v[3]) \div 10 >>

\* Section E: 0.8 * current_v + 0.2 * self.velocity
BlendVelocity(current_v, v) ==
    << (8 * current_v[1] + 2 * v[1]) \div 10,
       (8 * current_v[2] + 2 * v[2]) \div 10,
       (8 * current_v[3] + 2 * v[3]) \div 10 >>

\* Section E: current_v = (filtered_pos - self.last_valid_pos) / dt
CurrentV(s, dt, filtered_pos) == VOverDt(VSub(filtered_pos, s.last_valid_pos), dt)

\* Section E: the velocity after an accepted sample.
NextVelocity(s, is_new_session, dt, filtered_pos) ==
    IF UpdatesVelocity(s, dt)
    THEN LET current_v == VOverDt(VSub(filtered_pos, s.last_valid_pos), dt)
         IN  IF is_new_session THEN current_v
             ELSE BlendVelocity(current_v, s.velocity)
    ELSE s.velocity

\* Section E: speed = 0, replaced by the norm when the velocity is updated.
Speed(s, dt, new_velocity) ==
    IF UpdatesVelocity(s, dt) THEN Norm(new_velocity) ELSE 0

\* Section F: the trend analyzer is queried.
QueriesTrend(s) == s.prev_pos # None /\ s.prev_time # None

\* TrendArgs with the previous and the current sample exchanged.
TrendArgs_Swapped(s, filtered_pos, timestamp) ==
    <<s.prev_pos, filtered_pos, s.prev_time[1], timestamp>>

\* Section F: the arguments of recorder.analyze_speed_and_trend.
TrendArgs(s, filtered_pos, timestamp) ==
    <<filtered_pos, s.prev_pos, timestamp, s.prev_time[1]>>

\* QueriesLanding with the height test made inclusive.
QueriesLanding_Inclusive(filtered_pos) == filtered_pos[3] <= landing_height

\* Section F: the landing analyzer is queried.
QueriesLanding(filtered_pos) == filtered_pos[3] < landing_height

\* recorder.analyze_speed_and_trend: a reported trend change is a shot.
ShotsAfterTrend(shots, y_trend_changed) ==
    IF y_trend_changed THEN shots + 1 ELSE shots

\* AcceptedEvents with the processor counting the shot itself.
AcceptedEvents_CountsShot(s, landing_detected, y_trend_changed, shots) ==
    [landing_detected |-> landing_detected,
     y_trend_changed  |-> y_trend_changed,
     shot_count       |-> IF y_trend_changed THEN shots + 1 ELSE shots,
     frame_count      |-> s.frame_count,
     timeout          |-> FALSE]

\* The events dict of an accepted sample.
AcceptedEvents(s, landing_detected, y_trend_changed, shots) ==
    [landing_detected |-> landing_detected,
     y_trend_changed  |-> y_trend_changed,
     shot_count       |-> shots,
     frame_count      |-> s.frame_count,
     timeout          |-> FALSE]

\* UpdateHistory with only last_valid_* updated.
UpdateHistory_KeepsPrev(s, filtered_pos, timestamp) ==
    [s EXCEPT !.last_valid_pos = filtered_pos,
              !.last_valid_time = timestamp]

\* Section G: prev_* and last_valid_* take the filtered sample.
UpdateHistory(s, filtered_pos, timestamp) ==
    [s EXCEPT !.prev_pos = filtered_pos,
              !.prev_time = <<timestamp>>,
              !.last_valid_pos = filtered_pos,
              !.last_valid_time = timestamp]

\* The call record of an operation that is not a process step.
NoCall(op) ==
    [op |-> op, raw_pos |-> None, timestamp |-> 0, is_new_session |-> FALSE,
     elapsed |-> None, dt |-> 0, predicted_pos |-> None, rejected |-> FALSE, trend_calls |-> 0,
     landing_calls |-> 0, landing_resets |-> 0, raised |-> "none",
     speeds |-> << >>, filtered_pos |-> None, current_v |-> None,
     trend_args |-> None, trend_answer |-> None]

\* No return value (None).
NoRet == [pos |-> None, speed |-> 0, events |-> [k \in {} |-> FALSE]]

\* AnalyzerRaises with the exception caught and an empty event returned.
AnalyzerRaises_Swallowed(s, shots, c, who) ==
    [self  |-> s,
     shots |-> shots,
     ret   |-> [pos |-> None, speed |-> 0, events |-> RejectedEvents(s)],
     call  |-> [c EXCEPT !.raised = who]]

\* Sections F: the analyzer `who` raises; no handler surrounds the calls, so
\* the exception leaves process_realtime_step with the processor as it
\* stands at that point and without a result.
AnalyzerRaises(s, shots, c, who) ==
    [self  |-> s,
     shots |-> shots,
     ret   |-> NoRet,
     call  |-> [c EXCEPT !.raised = who]]

\* TrajectoryProcessor.process_realtime_step(raw_pos, timestamp) on the
\* processor s with the recorder's counter at shots; trend_ret and
\* landing_ret are what the two analyzers answer if they are queried, and
\* fault names the analyzer that raises instead ("none": neither).
process_realtime_step(s, shots, raw_pos, timestamp, trend_ret, landing_ret, fault) ==
    LET s1             == CountFrame(s)
        is_new_session == IsNewSession(s1.last_valid_time, timestamp)
        dt             == StepDt(s1.last_valid_time, timestamp)
        c0 == [op |-> "process", raw_pos |-> raw_pos, timestamp |-> timestamp,
               is_new_session |-> is_new_session,
               elapsed |-> Elapsed(s1.last_valid_time, timestamp), dt |-> dt,
               predicted_pos |-> IF ChecksJump(s1, is_new_session)
                                 THEN PredictedPos(s1, dt) ELSE None,
               rejected |-> FALSE, trend_calls |-> 0, landing_calls |-> 0,
               landing_resets |-> 0, raised |-> "none", speeds |-> << >>,
               filtered_pos |-> None, current_v |-> None, trend_args |-> None,
               trend_answer |-> None]
    IN  IF Rejects(s1, is_new_session, dt, raw_pos)
        THEN [self  |-> RejectSample(s1, raw_pos, timestamp),
              shots |-> shots,
              ret   |-> [pos |-> None, speed |-> 0, events |-> RejectedEvents(s1)],
              call  |-> [c0 EXCEPT !.rejected = TRUE]]
        ELSE LET s2  == SessionReset(s1, is_new_session)
                 fr  == OneEuroFilter_filter(s2.one_euro_filter, raw_pos, timestamp)
                 filtered_pos == fr.out
                 v   == NextVelocity(s2, is_new_session, dt, filtered_pos)
                 speed == Speed(s2, dt, v)
                 s3  == [s2 EXCEPT !.one_euro_filter = fr.f, !.velocity = v]
                 trend   == QueriesTrend(s3)
                 y_trend_changed == IF trend THEN trend_ret ELSE FALSE
                 shots1  == IF trend THEN ShotsAfterTrend(shots, y_trend_changed)
                            ELSE shots
                 landing == QueriesLanding(filtered_pos)
                 landing_detected == IF landing THEN landing_ret ELSE FALSE
                 s4  == UpdateHistory(s3, filtered_pos, timestamp)
             IN  IF trend /\ fault = "trend"
                 THEN AnalyzerRaises(s3, shots, [c0 EXCEPT !.trend_calls = 1],
                                     "trend")
                 ELSE IF landing /\ fault = "landing"
                 THEN AnalyzerRaises(s3, shots1,
                          [c0 EXCEPT !.trend_calls = IF trend THEN 1 ELSE 0,
                                     !.landing_calls = 1],
                          "landing")
                 ELSE
                 [self  |-> s4,
                  shots |-> shots1,
                  ret   |-> [pos |-> filtered_pos, speed |-> speed,
                             events |-> AcceptedEvents(s4, landing_detected,
                                                       y_trend_changed, shots1)],
                  call  |-> [c0 EXCEPT !.trend_calls = IF trend THEN 1 ELSE 0,
                                       !.landing_calls = IF landing THEN 1 ELSE 0,
                                       !.filtered_pos = filtered_pos,
                                       !.current_v = IF UpdatesVelocity(s2, dt)
                                                     THEN CurrentV(s2, dt, filtered_pos)
                                                     ELSE None,
                                       !.trend_args = IF trend
                                                      THEN TrendArgs(s3, filtered_pos, timestamp)
                                                      ELSE None,
                                       !.trend_answer = IF trend THEN <<trend_ret>>
                                                        ELSE None]]

\* reset with last_valid_time left as it was.
reset_KeepsTime(s) ==
    [s EXCEPT !.last_valid_pos = None,
              !.velocity = Zero3,
              !.prev_pos = None,
              !.prev_time = None,
              !.frame_count = 0]

\* TrajectoryProcessor.reset: the filter is not among the fields it assigns.
reset(s) ==
    [s EXCEPT !.last_valid_pos = None,
              !.last_valid_time = 0,
              !.velocity = Zero3,
              !.prev_pos = None,
              !.prev_time = None,
              !.frame_count = 0]

\* The statement of TrajectoryProcessor.reset at source line `line`
\* (147..153) applied to the processor s; line 153 calls the landing
\* analyzer and assigns nothing.
ResetStatement(s, line) ==
    IF line = 147 THEN [s EXCEPT !.last_valid_pos = None]
    ELSE IF line = 148 THEN [s EXCEPT !.last_valid_time = 0]
    ELSE IF line = 149 THEN [s EXCEPT !.velocity = Zero3]
    ELSE IF line = 150 THEN [s EXCEPT !.prev_pos = None]
    ELSE IF line = 151 THEN [s EXCEPT !.prev_time = None]
    ELSE IF line = 152 THEN [s EXCEPT !.frame_count = 0]
    ELSE s

\* ------------------------------------------------------------ serve reports

\* a / b for b # 0, as float division rounds a fixed-point quotient: towards
\* zero, with the sign of the operands.
Quot(a, b) == IF b > 0 THEN a \div b ELSE 0 - (a \div (0 - b))

\* The largest element of a non-empty sequence (np.max).
SeqMax(q) == CHOOSE m \in { q[i] : i \in DOMAIN q } : \A i \in DOMAIN q : q[i] <= m

\* The sum of a sequence.
RECURSIVE SeqSum(_)
SeqSum(q) == IF q = << >> THEN 0 ELSE Head(q) + SeqSum(Tail(q))

\* get_serve_features lines 213-216: the per-step speeds (mm/s) of a buffer;
\* only a gap of exactly 0 is replaced (by 0.001 s = 1 ms).
StepSpeeds(pts) ==
    [i \in 1..(Len(pts) - 1) |->
        LET dist == Norm(VSub(pts[i + 1].pos, pts[i].pos))
            dt0  == pts[i + 1].time - pts[i].time
            dt   == IF dt0 = 0 THEN 1 ELSE dt0
        IN  Quot(dist * 1000, dt)]

\* get_serve_features with the landing point taken as the lowest point.
get_serve_features_LowestPoint(pts) ==
    IF Len(pts) < 5 THEN None
    ELSE LET low == CHOOSE i \in DOMAIN pts :
                        \A j \in DOMAIN pts :
                            \/ pts[i].pos[3] < pts[j].pos[3]
                            \/ (pts[i].pos[3] = pts[j].pos[3] /\ i <= j)
         IN  [max_speed   |-> SeqMax(StepSpeeds(pts)),
              peak_height |-> SeqMax([i \in DOMAIN pts |-> pts[i].pos[3]]),
              landing_x   |-> pts[low].pos[1],
              landing_y   |-> pts[low].pos[2],
              duration    |-> pts[Len(pts)].time - pts[1].time]

\* TrajectoryProcessor.get_serve_features(points): None below 5 points, else
\* the report.
get_serve_features(pts) ==
    IF Len(pts) < 5 THEN None
    ELSE [max_speed   |-> SeqMax(StepSpeeds(pts)),
          peak_height |-> SeqMax([i \in DOMAIN pts |-> pts[i].pos[3]]),
          landing_x   |-> pts[Len(pts)].pos[1],
          landing_y   |-> pts[Len(pts)].pos[2],
          duration    |-> pts[Len(pts)].time - pts[1].time]

\* analyze_current_serve line 184: the speeds of the steps with dt > 0.
ForwardSpeeds(buf) ==
    LET all == [i \in 1..(Len(buf) - 1) |->
                   [dt |-> buf[i + 1].time - buf[i].time,
                    d  |-> Norm(VSub(buf[i + 1].pos, buf[i].pos))]]
        fwd == SelectSeq(all, LAMBDA e : e.dt > 0)
    IN  [i \in DOMAIN fwd |-> Quot(fwd[i].d * 1000, fwd[i].dt)]

\* TrajectoryProcessor.analyze_current_serve on the buffer buf.
analyze_current_serve(buf) ==
    IF Len(buf) < 5 THEN None
    ELSE LET speeds == ForwardSpeeds(buf)
         IN  [max_speed  |-> IF speeds # << >> THEN SeqMax(speeds) ELSE 0,
              avg_speed  |-> IF speeds # << >>
                             THEN SeqSum(speeds) \div Len(speeds) ELSE 0,
              max_height |-> SeqMax([i \in DOMAIN buf |-> buf[i].pos[3]]),
              landing_x  |-> buf[Len(buf)].pos[1],
              landing_y  |-> buf[Len(buf)].pos[2],
              trajectory |-> [i \in DOMAIN buf |-> buf[i].pos],
              timestamp  |-> buf[1].time]

\* ------------------------------------------------------------ state machine

SetSelf(s) ==
    /\ last_valid_pos'  = s.last_valid_pos
    /\ last_valid_time' = s.last_valid_time
    /\ velocity'        = s.velocity
    /\ prev_pos'        = s.prev_pos
    /\ prev_time'       = s.prev_time
    /\ frame_count'     = s.frame_count
    /\ one_euro_filter' = s.one_euro_filter

\* TrajectoryProcessor.__init__ and the recorder's counter.
InitProcessor ==
    /\ last_valid_pos  = NewProcessor.last_valid_pos
    /\ last_valid_time = NewProcessor.last_valid_time
    /\ velocity        = NewProcessor.velocity
    /\ prev_pos        = NewProcessor.prev_pos
    /\ prev_time       = NewProcessor.prev_time
    /\ frame_count     = NewProcessor.frame_count
    /\ one_euro_filter = NewProcessor.one_euro_filter
    /\ shot_count      = 0
    /\ call            = NoCall("init")
    /\ ret             = NoRet
    /\ is_evaluating   = FALSE
    /\ current_serve_buffer = << >>

\* BallTrajectorySimulator.__init__: no capture window, no real-time mode,
\* no worker thread.
InitSimulator ==
    /\ is_evaluating_serve = FALSE
    /\ serve_data  = << >>
    /\ stop_timers = 0
    /\ report      = None
    /\ data_source = "none"
    /\ lcm_running = FALSE
    /\ lcm_lock    = "free"
    /\ ui_pc       = [at |-> "idle", switch |-> 0, line |-> 0]
    /\ worker_pc   = "off"
    /\ msg         = None
    /\ lcm_operation_in_progress = FALSE
    /\ lcm_health_timer = FALSE
    /\ restart_timers = 0
    /\ sim_one_euro_filter = SimOneEuroFilter

Init == InitProcessor /\ InitSimulator /\ points = << >>

\* One sample arrives and is processed.
Process ==
    \E raw_pos \in Positions, timestamp \in Times,
       trend_ret \in BOOLEAN, landing_ret \in BOOLEAN :
        /\ frame_count < MaxFrames
        /\ trend_ret => shot_count < MaxShots
        /\ \E r \in {process_realtime_step(Self, shot_count, raw_pos, timestamp,
                                           trend_ret, landing_ret, "none")} :
               /\ SetSelf(r.self)
               /\ shot_count' = r.shots
               /\ call' = r.call
               /\ ret' = r.ret
        /\ UNCHANGED <<serve_vars, thread_vars>>

\* The processor is reset.
Reset ==
    /\ SetSelf(reset(Self))
    /\ call' = [NoCall("reset") EXCEPT !.landing_resets = 1]
    /\ ret' = NoRet
    /\ UNCHANGED <<shot_count, serve_vars, thread_vars>>

Next == Process \/ Reset

Spec == Init /\ [][Next]_vars

\* One sample arrives whose timestamp is not before that of the sample
\* processed last.
ProcessInOrder == Process /\ call'.timestamp >= call.timestamp

NextInOrder == ProcessInOrder

\* The processor fed a stream with nondecreasing timestamps and never reset.
InOrderSpec == Init /\ [][NextInOrder]_vars

\* The filter is called on its own with the value x at time timestamp.
FilterCall ==
    \E x \in Positions, timestamp \in Times :
        \E r \in {OneEuroFilter_filter(one_euro_filter, x, timestamp)} :
            /\ one_euro_filter' = r.f
            /\ call' = [NoCall("filter") EXCEPT
                           !.raw_pos = x,
                           !.timestamp = timestamp,
                           !.elapsed = IF one_euro_filter.last_timestamp = None
                                       THEN None
                                       ELSE <<timestamp
                                              - one_euro_filter.last_timestamp[1]>>]
            /\ ret' = [NoRet EXCEPT !.pos = r.out]
            /\ UNCHANGED <<last_valid_pos, last_valid_time, velocity, prev_pos,
                           prev_time, frame_count, shot_count, serve_vars,
                           thread_vars>>

\* The filter's state is cleared as a new session clears it.
FilterClear ==
    /\ one_euro_filter' = SessionReset(Self, TRUE).one_euro_filter
    /\ call' = NoCall("clear")
    /\ ret' = NoRet
    /\ UNCHANGED <<last_valid_pos, last_valid_time, velocity, prev_pos,
                   prev_time, frame_count, shot_count, serve_vars, thread_vars>>

NextFilter == FilterCall \/ FilterClear

\* The OneEuroFilter on its own, under any sequence of calls and clears.
FilterSpec == Init /\ [][NextFilter]_vars

\* The same value and timestamp are handed to the processor module's filter
\* and to the simulator module's; ret holds what the first returns,
\* call.filtered_pos what the second returns.
TwinFilterCall ==
    \E x \in Positions, timestamp \in Times :
        \E r \in {OneEuroFilter_filter(one_euro_filter, x, timestamp)},
           q \in {SimOneEuroFilter_filter(sim_one_euro_filter, x, timestamp)} :
            /\ one_euro_filter' = r.f
            /\ sim_one_euro_filter' = q.f
            /\ call' = [NoCall("twin_filter") EXCEPT
                           !.raw_pos = x,
                           !.timestamp = timestamp,
                           !.elapsed = IF one_euro_filter.last_timestamp = None
                                       THEN None
                                       ELSE <<timestamp
                                              - one_euro_filter.last_timestamp[1]>>,
                           !.filtered_pos = q.out]
            /\ ret' = [NoRet EXCEPT !.pos = r.out]
            /\ UNCHANGED <<last_valid_pos, last_valid_time, velocity, prev_pos,
                           prev_time, frame_count, shot_count, is_evaluating,
                           current_serve_buffer, is_evaluating_serve, serve_data,
                           stop_timers, report, points, thread_vars>>

NextTwin == TwinFilterCall

\* The two OneEuroFilter classes, built alike and fed the same calls.
TwinSpec == Init /\ [][NextTwin]_vars

\* One sample arrives and an analyzer raises while it is processed.
ProcessFault ==
    \E raw_pos \in Positions, timestamp \in Times, trend_ret \in BOOLEAN,
       fault \in {"trend", "landing"} :
        /\ frame_count < MaxFrames
        /\ trend_ret => shot_count < MaxShots
        /\ \E r \in {process_realtime_step(Self, shot_count, raw_pos, timestamp,
                                           trend_ret, FALSE, fault)} :
               /\ r.call.raised # "none"
               /\ SetSelf(r.self)
               /\ shot_count' = r.shots
               /\ call' = r.call
               /\ ret' = r.ret
        /\ UNCHANGED <<serve_vars, thread_vars>>

NextFault == Process \/ Reset \/ ProcessFault

\* The processor with analyzers that may raise.
FaultSpec == Init /\ [][NextFault]_vars

\* The processor's own fields, left alone.
UnchangedProcessor ==
    UNCHANGED <<last_valid_pos, last_valid_time, velocity, prev_pos, prev_time,
                frame_count, one_euro_filter, shot_count>>

\* get_serve_features is applied to the buffer points.
GetServeFeatures ==
    /\ report' = get_serve_features(points)
    /\ call' = [NoCall("get_serve_features") EXCEPT
                   !.speeds = IF Len(points) < 5 THEN << >>
                              ELSE StepSpeeds(points)]
    /\ ret' = NoRet
    /\ UnchangedProcessor
    /\ UNCHANGED <<is_evaluating, current_serve_buffer, is_evaluating_serve,
                   serve_data, stop_timers, points,
                   sim_one_euro_filter, thread_vars>>

\* get_serve_features on any buffer of sample points.
InitFeatures == InitProcessor /\ InitSimulator /\ points \in PointSeqs

NextFeatures == GetServeFeatures

FeaturesSpec == InitFeatures /\ [][NextFeatures]_vars

\* Captured with the armed flag ignored.
Captured_Always(data, armed, filtered_pos, timestamp) ==
    IF filtered_pos # None
    THEN Append(data, [pos |-> filtered_pos, time |-> timestamp])
    ELSE data

\* _handle_lcm_message lines 4430-4433: serve_data after the first processor
\* step returned filtered_pos for the message stamped timestamp.
Captured(data, armed, filtered_pos, timestamp) ==
    IF filtered_pos # None /\ armed
    THEN Append(data, [pos |-> filtered_pos, time |-> timestamp])
    ELSE data

\* BallTrajectorySimulator.start_serve_evaluation, reached from the toggle
\* button when it becomes checked.
start_serve_evaluation ==
    /\ ~is_evaluating_serve
    /\ is_evaluating_serve' = TRUE
    /\ serve_data' = << >>
    /\ call' = NoCall("start_serve_evaluation")
    /\ ret' = NoRet
    /\ UnchangedProcessor
    /\ UNCHANGED <<is_evaluating, current_serve_buffer, stop_timers, report,
                   points,
                   sim_one_euro_filter, thread_vars>>

\* BallTrajectorySimulator.stop_serve_evaluation with the report that
\* analyze_serve_quality shows; serve_data is not assigned.
StopServeEvaluation ==
    /\ is_evaluating_serve' = FALSE
    /\ report' = IF Len(serve_data) > 5 THEN get_serve_features(serve_data)
                 ELSE None
    /\ call' = NoCall("stop_serve_evaluation")
    /\ ret' = NoRet
    /\ UnchangedProcessor
    /\ UNCHANGED <<is_evaluating, current_serve_buffer, serve_data, points,
                   sim_one_euro_filter,
                   thread_vars>>

\* stop_serve_evaluation reached from the toggle button when it becomes
\* unchecked.
stop_serve_evaluation ==
    /\ is_evaluating_serve
    /\ StopServeEvaluation
    /\ UNCHANGED stop_timers

\* stop_serve_evaluation reached from a QTimer.singleShot(300, ...) that a
\* landing scheduled, whatever has happened to the window since.
StopTimerFires ==
    /\ stop_timers > 0
    /\ stop_timers' = stop_timers - 1
    /\ StopServeEvaluation

\* BallTrajectorySimulator._handle_lcm_message in real-time mode: the
\* processor is stepped twice with the same sample, and the first result is
\* what the capture window buffers.
HandleLcmMessage ==
    \E m \in ServeMessages, trend1 \in BOOLEAN, landing1 \in BOOLEAN,
       trend2 \in BOOLEAN, landing2 \in BOOLEAN :
        /\ data_source = "real_time"
        /\ frame_count + 2 <= 2 * MaxMessages
        /\ \E r1 \in {process_realtime_step(Self, shot_count, m[1], m[2],
                                            trend1, landing1, "none")} :
           \E r2 \in {process_realtime_step(r1.self, r1.shots, m[1], m[2],
                                            trend2, landing2, "none")} :
               /\ r2.shots <= MaxShots
               /\ SetSelf(r2.self)
               /\ shot_count' = r2.shots
               /\ serve_data' = Captured(serve_data, is_evaluating_serve,
                                         r1.ret.pos, m[2])
               /\ stop_timers' =
                      IF /\ r1.ret.pos # None
                         /\ is_evaluating_serve
                         /\ r1.ret.events.landing_detected
                      THEN stop_timers + 1
                      ELSE stop_timers
               /\ call' = [NoCall("_handle_lcm_message") EXCEPT
                              !.raw_pos = m[1],
                              !.timestamp = m[2],
                              !.rejected = (r1.ret.pos = None),
                              !.filtered_pos = r1.ret.pos]
               /\ ret' = NoRet
        /\ UNCHANGED <<is_evaluating, current_serve_buffer, is_evaluating_serve,
                       report, points,
                   sim_one_euro_filter, thread_vars>>

\* TrajectoryProcessor.start_serve_session.
start_serve_session ==
    /\ is_evaluating' = TRUE
    /\ current_serve_buffer' = << >>
    /\ call' = NoCall("start_serve_session")
    /\ ret' = NoRet
    /\ UnchangedProcessor
    /\ UNCHANGED <<is_evaluating_serve, serve_data, stop_timers, report, points,
                   sim_one_euro_filter,
                   thread_vars>>

\* TrajectoryProcessor.stop_serve_session.
stop_serve_session ==
    /\ is_evaluating' = FALSE
    /\ report' = IF current_serve_buffer = << >> THEN None
                 ELSE analyze_current_serve(current_serve_buffer)
    /\ current_serve_buffer' = << >>
    /\ call' = NoCall("stop_serve_session")
    /\ ret' = NoRet
    /\ UnchangedProcessor
    /\ UNCHANGED <<is_evaluating_serve, serve_data, stop_timers, points,
                   sim_one_euro_filter,
                   thread_vars>>

\* The simulator once switch_to_real_time_mode has run on it: the processor
\* is as constructed and messages are let through to it.
InitRealTime ==
    /\ InitProcessor
    /\ is_evaluating_serve = FALSE
    /\ serve_data  = << >>
    /\ stop_timers = 0
    /\ report      = None
    /\ points      = << >>
    /\ data_source = "real_time"
    /\ lcm_running = TRUE
    /\ lcm_lock    = "free"
    /\ ui_pc       = [at |-> "done", switch |-> 2, line |-> 0]
    /\ worker_pc   = "loop"
    /\ msg         = None
    /\ lcm_operation_in_progress = FALSE
    /\ lcm_health_timer = TRUE
    /\ restart_timers = 0
    /\ sim_one_euro_filter = SimOneEuroFilter

NextServe ==
    \/ start_serve_evaluation
    \/ stop_serve_evaluation
    \/ StopTimerFires
    \/ HandleLcmMessage
    \/ start_serve_session
    \/ stop_serve_session

\* The capture windows of the simulator and of the processor while messages
\* arrive.
ServeSpec == InitRealTime /\ [][NextServe]_vars

\* Serve capture append(sample): while the processor's window is armed the
\* caller adds one (position, time) pair to its buffer.
AppendSample ==
    \E p \in SessionPoints :
        /\ is_evaluating
        /\ Len(current_serve_buffer) < MaxPoints
        /\ current_serve_buffer' = Append(current_serve_buffer, p)
        /\ call' = NoCall("append")
        /\ ret' = NoRet
        /\ UnchangedProcessor
        /\ UNCHANGED <<is_evaluating, is_evaluating_serve, serve_data,
                       stop_timers, report, points,
                   sim_one_euro_filter, thread_vars>>

NextSession == start_serve_session \/ AppendSample \/ stop_serve_session

\* The processor's own capture window, filled by its caller.
SessionSpec == Init /\ [][NextSession]_vars

\* ---------------------------------------------------------------- threads

\* The simulator's fields that belong to the worker's restart.
UnchangedRestart == UNCHANGED <<lcm_health_timer, restart_timers>>

\* start_realtime_render calls start_lcm_subscription, which subscribes the
\* handler, sets lcm_running, starts the worker thread and the health timer,
\* and then calls switch_to_real_time_mode itself (line 4307).
StartLcmSubscription ==
    /\ ui_pc.at = "idle"
    /\ lcm_running' = TRUE
    /\ worker_pc' = "loop"
    /\ lcm_health_timer' = TRUE
    /\ ui_pc' = [at |-> "switch", switch |-> 1, line |-> 4307]
    /\ UnchangedProcessor
    /\ UNCHANGED <<call, ret, serve_vars, data_source, lcm_lock, msg,
                   lcm_operation_in_progress, restart_timers>>

\* switch_to_real_time_mode up to its call of processor.reset() (line 4673);
\* no lock is taken on the way.
EnterReset ==
    /\ ui_pc.at = "switch"
    /\ ui_pc' = [ui_pc EXCEPT !.at = "reset", !.line = 147]
    /\ UnchangedProcessor
    /\ UnchangedRestart
    /\ UNCHANGED <<call, ret, serve_vars, data_source, lcm_running, lcm_lock,
                   worker_pc, msg, lcm_operation_in_progress>>

\* The UI thread executes the next statement of reset(); the interpreter may
\* switch threads between any two of them.
ResetStep ==
    /\ ui_pc.at = "reset"
    /\ SetSelf(ResetStatement(Self, ui_pc.line))
    /\ ui_pc' = IF ui_pc.line < 153 THEN [ui_pc EXCEPT !.line = ui_pc.line + 1]
                ELSE [ui_pc EXCEPT !.at = "source", !.line = 4675]
    /\ call' = [NoCall("reset") EXCEPT
                   !.landing_resets = IF ui_pc.line = 153 THEN 1 ELSE 0]
    /\ ret' = NoRet
    /\ UnchangedRestart
    /\ UNCHANGED <<shot_count, serve_vars, data_source, lcm_running, lcm_lock,
                   worker_pc, msg, lcm_operation_in_progress>>

\* switch_to_real_time_mode line 4675; after the first switch,
\* start_realtime_render calls switch_to_real_time_mode again (line 3207).
SetDataSource ==
    /\ ui_pc.at = "source"
    /\ data_source' = "real_time"
    /\ ui_pc' = IF ui_pc.switch = 1
                THEN [at |-> "switch", switch |-> 2, line |-> 3207]
                ELSE [at |-> "done", switch |-> 2, line |-> 0]
    /\ UnchangedProcessor
    /\ UnchangedRestart
    /\ UNCHANGED <<call, ret, serve_vars, lcm_running, lcm_lock, worker_pc, msg,
                   lcm_operation_in_progress>>

\* _lcm_worker lines 4482-4497: the loop takes lcm_lock and sets
\* lcm_operation_in_progress; with the flag already set the iteration is
\* skipped and nothing changes.
WorkerAcquire ==
    /\ worker_pc = "loop"
    /\ lcm_running
    /\ lcm_lock = "free"
    /\ ~lcm_operation_in_progress
    /\ lcm_lock' = "worker"
    /\ lcm_operation_in_progress' = TRUE
    /\ worker_pc' = "poll"
    /\ UnchangedProcessor
    /\ UnchangedRestart
    /\ UNCHANGED <<call, ret, serve_vars, data_source, lcm_running, ui_pc, msg>>

\* handle_timeout(100) returns without a message; the flag is cleared (line
\* 4519) and the lock is released.
WorkerIdle ==
    /\ worker_pc = "poll"
    /\ lcm_operation_in_progress' = FALSE
    /\ lcm_lock' = "free"
    /\ worker_pc' = "loop"
    /\ UnchangedProcessor
    /\ UnchangedRestart
    /\ UNCHANGED <<call, ret, serve_vars, data_source, lcm_running, ui_pc, msg>>

\* handle_timeout(100) delivers a message to _handle_lcm_message on the
\* worker thread; in real-time mode the number of messages is bounded
\* through the frames their two processor steps will count.
WorkerReceive ==
    \E m \in ServeMessages :
        /\ worker_pc = "poll"
        /\ data_source = "real_time" => frame_count + 2 <= MaxFrames
        /\ msg' = m
        /\ worker_pc' = "handler"
        /\ UnchangedProcessor
        /\ UnchangedRestart
        /\ UNCHANGED <<call, ret, serve_vars, data_source, lcm_running,
                       lcm_lock, ui_pc, lcm_operation_in_progress>>

\* HandlerIgnores with the processor's frame counted before the data source
\* is tested.
HandlerIgnores_CountsFrame ==
    /\ worker_pc = "handler"
    /\ data_source # "real_time"
    /\ msg' = None
    /\ lcm_operation_in_progress' = FALSE
    /\ lcm_lock' = "free"
    /\ worker_pc' = "loop"
    /\ call' = NoCall("_handle_lcm_message")
    /\ ret' = NoRet
    /\ SetSelf(CountFrame(Self))
    /\ UnchangedRestart
    /\ UNCHANGED <<shot_count, serve_vars, data_source, lcm_running, ui_pc>>

\* _handle_lcm_message lines 4418-4419: not in real-time mode, the handler
\* returns before the message is decoded; handle_timeout returns and the
\* worker releases the lock.
HandlerIgnores ==
    /\ worker_pc = "handler"
    /\ data_source # "real_time"
    /\ msg' = None
    /\ lcm_operation_in_progress' = FALSE
    /\ lcm_lock' = "free"
    /\ worker_pc' = "loop"
    /\ call' = NoCall("_handle_lcm_message")
    /\ ret' = NoRet
    /\ UnchangedProcessor
    /\ UnchangedRestart
    /\ UNCHANGED <<serve_vars, data_source, lcm_running, ui_pc>>

\* The handler calls process_realtime_step: the first call (line 4427) in
\* real-time mode, the second (line 4442) after the first has returned.
HandlerEntersStep ==
    /\ \/ /\ worker_pc = "handler"
          /\ data_source = "real_time"
          /\ worker_pc' = "step1"
       \/ /\ worker_pc = "handler2"
          /\ worker_pc' = "step2"
    /\ UnchangedProcessor
    /\ UnchangedRestart
    /\ UNCHANGED <<call, ret, serve_vars, data_source, lcm_running, lcm_lock,
                   ui_pc, msg, lcm_operation_in_progress>>

\* The process_realtime_step call in progress completes on the processor as
\* it stands now; after the second call the handler returns and the worker
\* releases the lock.
HandlerLeavesStep ==
    \E trend_ret \in BOOLEAN, landing_ret \in BOOLEAN :
        /\ worker_pc \in {"step1", "step2"}
        /\ trend_ret => shot_count < MaxShots
        /\ \E r \in {process_realtime_step(Self, shot_count, msg[1], msg[2],
                                           trend_ret, landing_ret, "none")} :
               /\ SetSelf(r.self)
               /\ shot_count' = r.shots
               /\ call' = r.call
               /\ ret' = r.ret
               /\ serve_data' =
                      IF worker_pc = "step1"
                      THEN Captured(serve_data, is_evaluating_serve, r.ret.pos,
                                    msg[2])
                      ELSE serve_data
        /\ worker_pc' = IF worker_pc = "step1" THEN "handler2" ELSE "loop"
        /\ lcm_lock'  = IF worker_pc = "step1" THEN lcm_lock ELSE "free"
        /\ msg'       = IF worker_pc = "step1" THEN msg ELSE None
        /\ lcm_operation_in_progress' =
               IF worker_pc = "step1" THEN lcm_operation_in_progress ELSE FALSE
        /\ UnchangedRestart
        /\ UNCHANGED <<is_evaluating, current_serve_buffer, is_evaluating_serve,
                       stop_timers, report, points,
                   sim_one_euro_filter, data_source, lcm_running,
                       ui_pc>>

NextThreads ==
    \/ StartLcmSubscription
    \/ EnterReset
    \/ ResetStep
    \/ SetDataSource
    \/ WorkerAcquire
    \/ WorkerIdle
    \/ WorkerReceive
    \/ HandlerIgnores
    \/ HandlerEntersStep
    \/ HandlerLeavesStep

\* start_realtime_render on the UI thread against the LCM worker thread.
ThreadSpec == Init /\ [][NextThreads]_vars

\* ------------------------------------------------------ worker lifecycle

\* The UI thread is between two handlers of its event loop.
UiIdle == ui_pc.at = "done"

\* What the worker's steps leave alone.
UnchangedByLifecycle ==
    /\ UnchangedProcessor
    /\ UNCHANGED <<ret, serve_vars, data_source, msg>>

\* show_server_config, accepted: the data source becomes "remote_live"; the
\* LCM subscription is left running.
ShowServerConfig ==
    /\ UiIdle
    /\ data_source = "real_time"
    /\ data_source' = "remote_live"
    /\ UnchangedProcessor
    /\ UNCHANGED <<call, ret, serve_vars, lcm_running, lcm_lock, ui_pc,
                   worker_pc, msg, lcm_operation_in_progress,
                   lcm_health_timer, restart_timers>>

\* _lcm_worker line 4482: the loop test fails and the loop is left.
WorkerExit ==
    /\ worker_pc = "loop"
    /\ ~lcm_running
    /\ worker_pc' = "finally"
    /\ UnchangedByLifecycle
    /\ UNCHANGED <<call, lcm_running, lcm_lock, ui_pc,
                   lcm_operation_in_progress, lcm_health_timer, restart_timers>>

\* _lcm_worker lines 4544-4554: an exception escapes the loop's own handler
\* (its print or logger call raises) and the loop is left while lcm_running
\* is still set; the lock is not held at that point.
WorkerCrash ==
    /\ worker_pc = "loop"
    /\ lcm_running
    /\ restart_timers < MaxRestarts
    /\ worker_pc' = "finally"
    /\ UnchangedByLifecycle
    /\ UNCHANGED <<call, lcm_running, lcm_lock, ui_pc,
                   lcm_operation_in_progress, lcm_health_timer, restart_timers>>

\* _lcm_worker lines 4556-4561: the finally clause schedules a restart if
\* lcm_running is set, and the thread ends.
WorkerFinally ==
    /\ worker_pc = "finally"
    /\ restart_timers' = IF lcm_running THEN restart_timers + 1
                         ELSE restart_timers
    /\ worker_pc' = "off"
    /\ UnchangedByLifecycle
    /\ UNCHANGED <<call, lcm_running, lcm_lock, ui_pc,
                   lcm_operation_in_progress, lcm_health_timer>>

\* restart_lcm_worker that starts a thread whether or not lcm_running is set.
restart_lcm_worker_Unguarded(running, pc) ==
    IF pc = "off" THEN "loop" ELSE pc

\* _restart_lcm_worker: the worker's position after the call; a new thread is
\* started only if lcm_running is set and no worker thread is alive.
restart_lcm_worker(running, pc) ==
    IF running /\ pc = "off" THEN "loop" ELSE pc

\* A QTimer.singleShot(2000, self._restart_lcm_worker) fires on the UI thread.
RestartTimerFires ==
    /\ UiIdle
    /\ restart_timers > 0
    /\ restart_timers' = restart_timers - 1
    /\ worker_pc' = restart_lcm_worker(lcm_running, worker_pc)
    /\ call' = NoCall("_restart_lcm_worker")
    /\ UnchangedByLifecycle
    /\ UNCHANGED <<lcm_running, lcm_lock, ui_pc, lcm_operation_in_progress,
                   lcm_health_timer>>

\* _lcm_health_check lines 4883-4890: the timer fires, lcm_running is set and
\* the worker thread is dead, so _restart_lcm_worker is called.
HealthRestarts ==
    /\ UiIdle
    /\ lcm_health_timer
    /\ lcm_running
    /\ worker_pc = "off"
    /\ worker_pc' = restart_lcm_worker(lcm_running, worker_pc)
    /\ call' = NoCall("_lcm_health_check")
    /\ UnchangedByLifecycle
    /\ UNCHANGED <<lcm_running, lcm_lock, ui_pc, lcm_operation_in_progress,
                   lcm_health_timer, restart_timers>>

\* _lcm_health_check lines 4883-4907: the timer fires while the worker is
\* alive; the UI thread takes lcm_lock, finds no operation in progress and
\* calls handle_timeout(10).  With the flag set the check is skipped and
\* nothing changes.
HealthAcquire ==
    /\ UiIdle
    /\ lcm_health_timer
    /\ lcm_running
    /\ worker_pc # "off"
    /\ lcm_lock = "free"
    /\ ~lcm_operation_in_progress
    /\ lcm_lock' = "ui"
    /\ ui_pc' = [ui_pc EXCEPT !.at = "health_poll"]
    /\ UnchangedByLifecycle
    /\ UNCHANGED <<call, lcm_running, worker_pc, lcm_operation_in_progress,
                   lcm_health_timer, restart_timers>>

\* handle_timeout(10) returns in _lcm_health_check and the lock is released.
HealthRelease ==
    /\ ui_pc.at = "health_poll"
    /\ lcm_lock' = "free"
    /\ ui_pc' = [ui_pc EXCEPT !.at = "done"]
    /\ UnchangedByLifecycle
    /\ UNCHANGED <<call, lcm_running, worker_pc, lcm_operation_in_progress,
                   lcm_health_timer, restart_timers>>

\* _check_lcm_health lines 4856-4870: with lcm_running set and the worker
\* alive, handle_timeout(10) is called; no lock is taken.
CheckLcmHealth ==
    /\ UiIdle
    /\ lcm_running
    /\ worker_pc # "off"
    /\ ui_pc' = [ui_pc EXCEPT !.at = "check_poll"]
    /\ UnchangedByLifecycle
    /\ UNCHANGED <<call, lcm_running, lcm_lock, worker_pc,
                   lcm_operation_in_progress, lcm_health_timer, restart_timers>>

\* handle_timeout(10) returns in _check_lcm_health.
CheckLcmHealthReturns ==
    /\ ui_pc.at = "check_poll"
    /\ ui_pc' = [ui_pc EXCEPT !.at = "done"]
    /\ UnchangedByLifecycle
    /\ UNCHANGED <<call, lcm_running, lcm_lock, worker_pc,
                   lcm_operation_in_progress, lcm_health_timer, restart_timers>>

\* handle_timeout(10) on the UI thread delivers a message: the subscribed
\* handler runs on the UI thread.
UiPollReceives ==
    /\ ui_pc.at \in {"health_poll", "check_poll"}
    /\ frame_count + 2 <= MaxFrames
    /\ HandleLcmMessage

\* stop_lcm_subscription lines 4570-4580: the health timer is stopped and
\* lcm_running is cleared.  The callers modelled test lcm_running first
\* (lines 2046, 4691, 4951).
StopLcmSubscription ==
    /\ UiIdle
    /\ lcm_running
    /\ lcm_health_timer' = FALSE
    /\ lcm_running' = FALSE
    /\ ui_pc' = [ui_pc EXCEPT !.at = "join"]
    /\ call' = NoCall("stop_lcm_subscription")
    /\ UnchangedByLifecycle
    /\ UNCHANGED <<lcm_lock, worker_pc, lcm_operation_in_progress,
                   restart_timers>>

\* stop_lcm_subscription lines 4582-4586: join(timeout=2.0) returns, the
\* worker having ended or not.
StopJoin ==
    /\ ui_pc.at = "join"
    /\ ui_pc' = [ui_pc EXCEPT !.at = "wait_lock"]
    /\ UnchangedByLifecycle
    /\ UNCHANGED <<call, lcm_running, lcm_lock, worker_pc,
                   lcm_operation_in_progress, lcm_health_timer, restart_timers>>

\* stop_lcm_subscription lines 4589-4613: the lock is taken and released at
\* once, the subscription and the thread reference are dropped and
\* lcm_operation_in_progress is cleared.
StopCleanup ==
    /\ ui_pc.at = "wait_lock"
    /\ lcm_lock = "free"
    /\ lcm_operation_in_progress' = FALSE
    /\ ui_pc' = [ui_pc EXCEPT !.at = "done"]
    /\ UnchangedByLifecycle
    /\ UNCHANGED <<call, lcm_running, lcm_lock, worker_pc, lcm_health_timer,
                   restart_timers>>

\* The steps of the worker thread.
WorkerStep ==
    \/ WorkerAcquire
    \/ WorkerIdle
    \/ WorkerReceive
    \/ HandlerIgnores
    \/ HandlerEntersStep
    \/ HandlerLeavesStep
    \/ WorkerExit
    \/ WorkerCrash
    \/ WorkerFinally

\* The handlers of the UI thread.
UiStep ==
    \/ ShowServerConfig
    \/ RestartTimerFires
    \/ HealthRestarts
    \/ HealthAcquire
    \/ HealthRelease
    \/ CheckLcmHealth
    \/ CheckLcmHealthReturns
    \/ UiPollReceives
    \/ StopLcmSubscription
    \/ StopJoin
    \/ StopCleanup

NextLcm == WorkerStep \/ UiStep

\* A running LCM subscription: the worker thread against the UI thread's
\* health checks, restarts and stop_lcm_subscription.
LcmSpec == InitRealTime /\ [][NextLcm]_vars

\* The worker's own moves through the loop of _lcm_worker: taking the lock,
\* handle_timeout(100) returning, the handler returning or calling the
\* processor, leaving the loop and ending.
WorkerMoves ==
    \/ WorkerAcquire
    \/ WorkerIdle
    \/ HandlerIgnores
    \/ HandlerEntersStep
    \/ WorkerExit
    \/ WorkerFinally

\* The process_realtime_step call the handler is in returns: the worker's
\* position moves as HandlerLeavesStep moves it.
StepReturns ==
    /\ worker_pc \in {"step1", "step2"}
    /\ worker_pc' = IF worker_pc = "step1" THEN "handler2" ELSE "loop"

\* LcmSpec with a worker thread that keeps being scheduled and a
\* handle_timeout that returns: a move the worker can make is made, and a
\* processor call in progress returns.
LcmFairSpec == LcmSpec /\ WF_vars(WorkerMoves) /\ WF_worker_pc(StepReturns)

\* ------------------------------------------------------------------ claims

Processed == call.op = "process"

Accepted == Processed /\ ~call.rejected

Rejected == Processed /\ call.rejected

\* The raw sample lies exactly max_jump_distance from the predicted position.
AtJumpLimit ==
    /\ call.predicted_pos # None
    /\ LET d == VSub(call.raw_pos, call.predicted_pos)
       IN  /\ Abs(d[1]) <= max_jump_distance
           /\ Abs(d[2]) <= max_jump_distance
           /\ Abs(d[3]) <= max_jump_distance
           /\ SumSq(d) = max_jump_distance * max_jump_distance

\* C1: every process_realtime_step call, accepted, rejected or starting a
\* new session, leaves frame_count one above its value before the call, and
\* the event it returns reports that new value.
C1_FrameCountAdvances ==
    [][call'.op = "process" =>
         /\ frame_count' = frame_count + 1
         /\ ret'.events.frame_count = frame_count']_vars

\* C1 witness: a rejected call has advanced the counter past 1 and reported it.
C1_Witness ==
    Rejected /\ frame_count = 2 /\ ret.events.frame_count = 2

\* C2: a call that rejects its sample leaves last_valid_pos, last_valid_time,
\* velocity, prev_pos, prev_time, both smoother states and the filter's
\* stored timestamp as they were; only the frame counter differs.
C2_RejectionChangesNothing ==
    [][(call'.op = "process" /\ call'.rejected) =>
         /\ last_valid_pos' = last_valid_pos
         /\ last_valid_time' = last_valid_time
         /\ velocity' = velocity
         /\ prev_pos' = prev_pos
         /\ prev_time' = prev_time
         /\ one_euro_filter'.x_filter.s = one_euro_filter.x_filter.s
         /\ one_euro_filter'.dx_filter.s = one_euro_filter.dx_filter.s
         /\ one_euro_filter'.last_timestamp = one_euro_filter.last_timestamp
         /\ frame_count' # frame_count]_vars

\* C2 witness: a sample was rejected while the processor held a velocity and
\* a filter history.
C2_Witness ==
    /\ Rejected
    /\ velocity # Zero3
    /\ one_euro_filter.last_timestamp # None

\* C3: a sample starts a new session if and only if no sample has been
\* accepted before it or its timestamp exceeds last_valid_time by more than
\* the timeout; a sample within the timeout of an accepted first sample never
\* starts a new session, whatever that first sample's timestamp (0 included).
C3_NewSessionIffNoPriorOrTimeout ==
    [][call'.op = "process" =>
         (call'.is_new_session <=>
            \/ last_valid_pos = None
            \/ call'.timestamp - last_valid_time > timeout_threshold)]_vars

\* C4: a sample that starts a new session is always accepted, whatever its
\* distance from the last accepted position.
C4_NewSessionAccepted ==
    [][(call'.op = "process" /\ call'.is_new_session) =>
         (~call'.rejected /\ ret'.pos # None)]_vars

\* C4 witness: a sample arriving after a gap above the timeout was accepted
\* although it lay more than max_jump_distance from the last accepted
\* position (the velocity set from that step over default_dt shows the
\* distance).
C4_Witness ==
    /\ Accepted
    /\ call.is_new_session
    /\ call.elapsed # None
    /\ call.elapsed[1] > timeout_threshold
    /\ Norm(velocity) * default_dt > max_jump_distance * 1000

\* C5: in a continuing session the sample is rejected if and only if its
\* distance from last_valid_pos + velocity * dt, dt = timestamp -
\* last_valid_time, is strictly above max_jump_distance.
C5_RejectIffBeyondJump ==
    [][(call'.op = "process" /\ ~call'.is_new_session) =>
         (call'.rejected <=>
            NormExceeds(
                VSub(call'.raw_pos,
                     VAdd(last_valid_pos,
                          VTimesDt(velocity, call'.timestamp - last_valid_time))),
                max_jump_distance))]_vars

\* C5 witness: a sample exactly at the threshold distance was accepted.
C5_Witness == Accepted /\ ~call.is_new_session /\ AtJumpLimit

\* C6: a rejecting call returns an absent position, speed 0 and an event with
\* the incremented frame_count in which landing_detected, y_trend_changed and
\* is_new_session are present and false; no analyzer is invoked.
C6_RejectedEventComplete ==
    Rejected =>
        /\ ret.pos = None
        /\ ret.speed = 0
        /\ call.trend_calls = 0
        /\ call.landing_calls = 0
        /\ ret.events.frame_count = frame_count
        /\ {"landing_detected", "y_trend_changed", "is_new_session"}
               \subseteq DOMAIN ret.events
        /\ ~ret.events.landing_detected
        /\ ~ret.events.y_trend_changed
        /\ ~ret.events.is_new_session

\* C7: the event of an accepted sample carries landing_detected,
\* y_trend_changed, shot_count, frame_count and is_new_session, and
\* is_new_session tells whether the sample started a new session.
C7_AcceptedEventComplete ==
    Accepted =>
        /\ {"landing_detected", "y_trend_changed", "shot_count", "frame_count",
            "is_new_session"} \subseteq DOMAIN ret.events
        /\ ret.events.is_new_session = call.is_new_session

\* C8: for every accepted sample the returned speed is the magnitude of the
\* velocity as it stands after the call.
C8_SpeedIsVelocityNorm == Accepted => ret.speed = Norm(velocity)

\* C9: an accepted sample of a continuing session whose dt is not positive
\* gets the previously produced filtered position back, and the velocity and
\* the filter state are unchanged.
C9_StaleSampleKeepsState ==
    [][(/\ call'.op = "process"
        /\ ~call'.rejected
        /\ ~call'.is_new_session
        /\ call'.dt <= 0) =>
         /\ ret'.pos = last_valid_pos
         /\ velocity' = velocity
         /\ one_euro_filter' = one_euro_filter]_vars

\* C9 witness: a sample older than the last accepted one was accepted in a
\* continuing session while the processor held a velocity.
C9_Witness ==
    /\ Accepted
    /\ ~call.is_new_session
    /\ call.dt < 0
    /\ velocity # Zero3

\* C10: the landing analyzer is invoked only for accepted samples whose
\* filtered z is strictly below 80; at 80 or above it is not invoked and
\* landing_detected is false.
C10_LandingGate ==
    /\ call.landing_calls > 0 => (Accepted /\ ret.pos[3] < landing_height)
    /\ (Accepted /\ ret.pos[3] >= landing_height) =>
           (call.landing_calls = 0 /\ ~ret.events.landing_detected)

\* C10 witness: an accepted sample filtered to exactly 80 mm did not reach the
\* landing analyzer.
C10_Witness ==
    Accepted /\ ret.pos[3] = landing_height /\ call.landing_calls = 0

\* C11: process_realtime_step does not change the recorder's shot counter
\* itself (the counter moves only in a call that queries the trend analyzer),
\* and the shot_count of a returned event is the counter as it stands after
\* that call's trend query.
C11_ShotCountIsRecorders ==
    [][call'.op = "process" =>
         /\ call'.trend_calls = 0 => shot_count' = shot_count
         /\ ~call'.rejected => ret'.events.shot_count = shot_count']_vars

\* C11 witness: an accepted call queried the trend analyzer, which counted a
\* shot, and the event reports the counter after that query.
C11_Witness ==
    /\ Accepted
    /\ call.trend_calls = 1
    /\ ret.events.y_trend_changed
    /\ shot_count = 1
    /\ ret.events.shot_count = 1

\* C12: reset() clears last_valid_pos, last_valid_time, velocity, prev_pos,
\* prev_time and frame_count, clears both smoother states and the stored
\* timestamp of the filter, and calls the landing analyzer's reset.
C12_ResetClearsEverything ==
    call.op = "reset" =>
        /\ last_valid_pos = None
        /\ last_valid_time = 0
        /\ velocity = Zero3
        /\ prev_pos = None
        /\ prev_time = None
        /\ frame_count = 0
        /\ call.landing_resets = 1
        /\ one_euro_filter.x_filter.s = None
        /\ one_euro_filter.dx_filter.s = None
        /\ one_euro_filter.last_timestamp = None

\* C19: when the trend or the landing analyzer raises, the error leaves
\* process_realtime_step: the call returns no (position, speed, event) result,
\* the failed analyzer was called once and nothing after it was called.
C19_AnalyzerErrorPropagates ==
    (Processed /\ call.raised # "none") =>
        /\ ret = NoRet
        /\ call.raised = "trend" => (call.trend_calls = 1 /\ call.landing_calls = 0)
        /\ call.raised = "landing" => (call.trend_calls <= 1 /\ call.landing_calls = 1)

\* C19 witness: the landing analyzer raised after the trend analyzer had
\* answered, and the call ended without a result.
C19_Witness ==
    /\ Processed
    /\ call.raised = "landing"
    /\ call.trend_calls = 1
    /\ ret = NoRet

\* C13: OneEuroFilter.filter on a filter with no prior value (fresh or
\* cleared) returns its input unchanged, sets the position smoother to the
\* input, the derivative smoother to zero and the stored timestamp to the
\* call's timestamp.
C13_FirstFilterCallSeeds ==
    [][(call'.op = "filter" /\ one_euro_filter.x_filter.s = None) =>
         /\ ret'.pos = call'.raw_pos
         /\ one_euro_filter'.x_filter.s = call'.raw_pos
         /\ one_euro_filter'.dx_filter.s = Zero3
         /\ one_euro_filter'.last_timestamp = <<call'.timestamp>>]_vars

\* C13 witness: a filter that had smoothed before (its coefficient is set)
\* and was cleared has been seeded by its next call.
C13_Witness ==
    /\ call.op = "filter"
    /\ call.elapsed = None
    /\ one_euro_filter.x_filter.alpha > 0
    /\ ret.pos = call.raw_pos
    /\ one_euro_filter.dx_filter.s = Zero3

\* C14: OneEuroFilter.filter on an initialized filter with timestamp -
\* last_timestamp <= 0 returns the previous smoothed output and changes none
\* of the filter's state (smoother states, coefficients, stored timestamp).
C14_StaleFilterCallIsReadOnly ==
    [][(/\ call'.op = "filter"
        /\ one_euro_filter.last_timestamp # None
        /\ call'.timestamp - one_euro_filter.last_timestamp[1] <= 0) =>
         /\ ret'.pos = one_euro_filter.x_filter.s
         /\ one_euro_filter' = one_euro_filter]_vars

\* C14 witness: a call with an earlier timestamp and a different value got
\* the previous output back.
C14_Witness ==
    /\ call.op = "filter"
    /\ call.elapsed # None
    /\ call.elapsed[1] < 0
    /\ ret.pos # call.raw_pos
    /\ ret.pos = one_euro_filter.x_filter.s

\* get_serve_features has returned a report for the buffer points.
Reported == call.op = "get_serve_features" /\ Len(points) >= 5

\* C17: every per-step speed behind the serve report's max_speed is distance
\* over elapsed time with zero and negative elapsed times guarded, so no
\* per-step speed is negative (and none divides by zero).
C17_StepSpeedsGuarded ==
    Reported =>
        /\ report # None
        /\ \A i \in DOMAIN call.speeds : call.speeds[i] >= 0
        /\ report.max_speed >= 0

\* C18: for every buffer of at least 5 points the report of
\* get_serve_features has peak_height equal to the largest z in the buffer,
\* landing_x and landing_y equal to the x and y of the last buffered point,
\* and duration equal to the last timestamp minus the first.
C18_ReportGeometry ==
    Reported =>
        /\ report # None
        /\ \A i \in DOMAIN points : points[i].pos[3] <= report.peak_height
        /\ \E i \in DOMAIN points : points[i].pos[3] = report.peak_height
        /\ report.landing_x = points[Len(points)].pos[1]
        /\ report.landing_y = points[Len(points)].pos[2]
        /\ report.duration + points[1].time = points[Len(points)].time

\* C18 witness: a report for a buffer whose highest point is neither its
\* first nor its last point, whose lowest point is not its last, and whose
\* timestamps span 500 ms.
C18_Witness ==
    /\ Reported
    /\ report # None
    /\ report.peak_height = 250
    /\ points[1].pos[3] = 79
    /\ points[Len(points)].pos[3] = 80
    /\ report.landing_x = 0
    /\ report.duration = -500

\* C15: closing a capture window yields a report if and only if at least 5
\* points were buffered while it was open: none below 5 points, a report
\* with exactly 5.
C15_ReportIffFivePoints ==
    [][(call'.op = "stop_serve_evaluation" /\ is_evaluating_serve) =>
          ((report' # None) <=> (Len(serve_data) >= 5))]_vars

\* C16: the capture buffer is empty right after a window is opened and right
\* after it is closed, and the armed flag is true after opening and false
\* after closing, in the simulator and in the processor.
C16_BufferEmptyAfterOpenAndClose ==
    /\ call.op = "start_serve_evaluation" =>
           (serve_data = << >> /\ is_evaluating_serve)
    /\ call.op = "stop_serve_evaluation" =>
           (serve_data = << >> /\ ~is_evaluating_serve)
    /\ call.op = "start_serve_session" =>
           (current_serve_buffer = << >> /\ is_evaluating)
    /\ call.op = "stop_serve_session" =>
           (current_serve_buffer = << >> /\ ~is_evaluating)

\* The UI thread is inside TrajectoryProcessor.reset().
InReset == ui_pc.at = "reset"

\* The worker thread is inside a process_realtime_step call.
InStep == worker_pc \in {"step1", "step2"}

\* The worker thread's handler is about to call process_realtime_step.
StepCanStart ==
    \/ worker_pc = "handler" /\ data_source = "real_time"
    \/ worker_pc = "handler2"

\* C20: reset() is never executed while a process_realtime_step call driven
\* by the LCM worker thread is in progress or can be started.
C20_ResetSerialized == InReset => (~InStep /\ ~StepCanStart)

\* C21: every sample that starts a new session is filtered by a cleared
\* filter: it is accepted, the filtered position returned is the raw sample
\* itself, and the filter is seeded with it.
C21_NewSessionReturnsRaw ==
    [][(call'.op = "process" /\ call'.is_new_session) =>
          /\ ~call'.rejected
          /\ ret'.pos = call'.raw_pos
          /\ one_euro_filter'.x_filter.s = call'.raw_pos
          /\ one_euro_filter'.dx_filter.s = Zero3
          /\ one_euro_filter'.last_timestamp = <<call'.timestamp>>]_vars

\* C21 witness: a sample after a gap longer than the timeout came back
\* unchanged from a filter that had smoothed before the gap.
C21_Witness ==
    /\ Processed
    /\ call.is_new_session
    /\ call.elapsed # None
    /\ call.elapsed[1] > timeout_threshold
    /\ one_euro_filter.x_filter.alpha > 0
    /\ ret.pos = call.raw_pos
    /\ one_euro_filter.last_timestamp = <<call.timestamp>>

\* C22: for a new-session sample after a gap the velocity after the call is
\* (filtered position - previous accepted position) / (time elapsed since
\* the previous accepted sample); for the very first sample it is zero.
C22_GapVelocityOverElapsed ==
    [][(call'.op = "process" /\ call'.is_new_session) =>
          /\ (last_valid_pos # None /\ last_valid_time > 0) =>
                 velocity' = VOverDt(VSub(ret'.pos, last_valid_pos),
                                     call'.timestamp - last_valid_time)
          /\ last_valid_pos = None => velocity' = Zero3]_vars

\* C23: for an accepted sample of a continuing session with dt > 0 the
\* velocity after the call is 0.8 * (filtered position - last_valid_pos) / dt
\* + 0.2 * (velocity before the call), componentwise.
C23_VelocityBlend ==
    [][(/\ call'.op = "process"
        /\ ~call'.rejected
        /\ ~call'.is_new_session
        /\ call'.dt > 0) =>
          /\ last_valid_pos # None
          /\ call'.dt = call'.timestamp - last_valid_time
          /\ \A i \in 1..3 :
                velocity'[i] =
                    (8 * (((ret'.pos[i] - last_valid_pos[i]) * 1000) \div call'.dt)
                     + 2 * velocity[i]) \div 10]_vars

\* C23 witness: a continuing sample moved the velocity to a value that is
\* neither the raw step velocity nor zero.
C23_Witness ==
    /\ Accepted
    /\ ~call.is_new_session
    /\ call.dt > 0
    /\ call.current_v # None
    /\ call.current_v # Zero3
    /\ velocity # call.current_v
    /\ velocity # Zero3

\* C24: the trend analyzer is invoked exactly once per accepted sample when
\* a previous filtered position/time pair exists, with (filtered position,
\* previous filtered position, timestamp, previous timestamp), and not at
\* all otherwise; y_trend_changed is its answer, or false without a call.
C24_TrendQueriedOnce ==
    [][call'.op = "process" =>
          IF ~call'.rejected /\ prev_pos # None /\ prev_time # None
          THEN /\ call'.trend_calls = 1
               /\ call'.trend_args =
                      <<ret'.pos, prev_pos, call'.timestamp, prev_time[1]>>
               /\ call'.trend_answer = <<ret'.events.y_trend_changed>>
          ELSE /\ call'.trend_calls = 0
               /\ call'.trend_args = None
               /\ ~call'.rejected => ret'.events.y_trend_changed = FALSE]_vars

\* C24 witness: the analyzer was asked about two different positions at two
\* different times and answered that the trend changed.
C24_Witness ==
    /\ Accepted
    /\ call.trend_calls = 1
    /\ call.trend_args # None
    /\ call.trend_args[1] # call.trend_args[2]
    /\ call.trend_args[3] > call.trend_args[4]
    /\ ret.events.y_trend_changed

\* C25: after every accepted call prev_pos and last_valid_pos are the
\* filtered position returned and prev_time and last_valid_time are the
\* call's timestamp; in every state prev_pos is absent exactly when
\* last_valid_pos is.
C25_HistoryIsFiltered ==
    /\ Accepted =>
          /\ prev_pos = ret.pos
          /\ last_valid_pos = ret.pos
          /\ prev_time = <<call.timestamp>>
          /\ last_valid_time = call.timestamp
    /\ (prev_pos = None) <=> (last_valid_pos = None)

\* C25 witness: the history holds a filtered position that is not the raw
\* sample.
C25_Witness ==
    /\ Accepted
    /\ ret.pos # call.raw_pos
    /\ prev_pos = ret.pos
    /\ last_valid_pos = ret.pos
    /\ last_valid_time = call.timestamp

\* What the first call on a freshly constructed processor does with the
\* sample of the call record c whose landing answer is landing_ret.
FreshStep(c, shots, landing_ret) ==
    process_realtime_step(NewProcessor, shots, c.raw_pos, c.timestamp, FALSE, landing_ret, "none")

\* C26: the process call that follows a reset() behaves as the first call on
\* a freshly constructed processor given the same sample: new session,
\* accepted, input returned unchanged with speed 0, no trend query,
\* frame_count 1, and the same state afterwards (the smoothers' last
\* coefficients apart, which every later filter call overwrites before use).
C26_ResetThenProcessIsFresh ==
    [][(call.op = "reset" /\ call'.op = "process") =>
          /\ call'.is_new_session
          /\ ~call'.rejected
          /\ ret'.pos = call'.raw_pos
          /\ ret'.speed = 0
          /\ call'.trend_calls = 0
          /\ ret'.events.frame_count = 1
          /\ \E f \in {FreshStep(call', shot_count, ret'.events.landing_detected)} :
                /\ ret' = f.ret
                /\ last_valid_pos' = f.self.last_valid_pos
                /\ last_valid_time' = f.self.last_valid_time
                /\ velocity' = f.self.velocity
                /\ prev_pos' = f.self.prev_pos
                /\ prev_time' = f.self.prev_time
                /\ frame_count' = f.self.frame_count
                /\ one_euro_filter'.x_filter.s = f.self.one_euro_filter.x_filter.s
                /\ one_euro_filter'.dx_filter.s = f.self.one_euro_filter.dx_filter.s
                /\ one_euro_filter'.last_timestamp =
                       f.self.one_euro_filter.last_timestamp]_vars

\* C26 witness: the first sample after a reset (frame_count 1) on a
\* processor whose filter had smoothed before the reset came back unchanged.
C26_Witness ==
    /\ Processed
    /\ frame_count = 1
    /\ one_euro_filter.x_filter.alpha > 0
    /\ call.is_new_session
    /\ ret.pos = call.raw_pos
    /\ ret.speed = 0
    /\ velocity = Zero3

\* a lies between b and c (inclusive), whichever of the two is larger.
Between(a, b, c) == (b <= a /\ a <= c) \/ (c <= a /\ a <= b)

\* C27: for dt > 0 the smoothing coefficient of compute_alpha lies strictly
\* between 0 and 1 and is strictly increasing in the cutoff, so the
\* coefficient the filter uses is never below the one of min_cutoff, and the
\* filter's output lies componentwise between the previous smoothed output
\* and the new input.
C27_AlphaMonotoneOutputBetween ==
    [][(/\ call'.op = "filter"
        /\ one_euro_filter.last_timestamp # None
        /\ call'.timestamp - one_euro_filter.last_timestamp[1] > 0) =>
          LET dt == call'.timestamp - one_euro_filter.last_timestamp[1]
          IN  /\ \A c \in Cutoffs :
                    0 < compute_alpha(c, dt) /\ compute_alpha(c, dt) < AlphaScale
              /\ \A c1 \in Cutoffs : \A c2 \in Cutoffs :
                    c1 < c2 => compute_alpha(c1, dt) < compute_alpha(c2, dt)
              /\ 0 < one_euro_filter'.dx_filter.alpha
              /\ one_euro_filter'.dx_filter.alpha < AlphaScale
              /\ compute_alpha(min_cutoff, dt) <= one_euro_filter'.x_filter.alpha
              /\ one_euro_filter'.x_filter.alpha < AlphaScale
              /\ \A i \in 1..3 :
                    Between(ret'.pos[i], one_euro_filter.x_filter.s[i],
                            call'.raw_pos[i])]_vars

\* C27 witness: a fast sample was smoothed with a coefficient above the one
\* of min_cutoff and came out strictly between the previous output and the
\* input.
C27_Witness ==
    /\ call.op = "filter"
    /\ call.elapsed # None
    /\ call.elapsed[1] > 0
    /\ one_euro_filter.x_filter.alpha > compute_alpha(min_cutoff, call.elapsed[1])
    /\ ret.pos # call.raw_pos
    /\ ret.pos[2] < call.raw_pos[2]
    /\ ret.pos = one_euro_filter.x_filter.s

\* The handler has taken a message.
Handled == call.op = "_handle_lcm_message"

\* C28: while the capture window is armed the simulator appends exactly one
\* (filtered position, timestamp) pair per accepted message, nothing for a
\* rejected one, and nothing while the window is not armed.
C28_OnePointPerAcceptedSample ==
    [][call'.op = "_handle_lcm_message" =>
          IF is_evaluating_serve /\ ~call'.rejected
          THEN /\ Len(serve_data') = Len(serve_data) + 1
               /\ SubSeq(serve_data', 1, Len(serve_data)) = serve_data
               /\ serve_data'[Len(serve_data')] =
                      [pos |-> call'.filtered_pos, time |-> call'.timestamp]
          ELSE serve_data' = serve_data]_vars

\* C28 witness: an armed window holds a point whose position is the filtered
\* one of the message just handled, after an earlier point.
C28_Witness ==
    /\ Handled
    /\ is_evaluating_serve
    /\ ~call.rejected
    /\ Len(serve_data) >= 2
    /\ serve_data[Len(serve_data)] =
           [pos |-> call.filtered_pos, time |-> call.timestamp]
    /\ serve_data[Len(serve_data)].pos # serve_data[1].pos

\* C30: handling one LCM message in real-time mode performs exactly one
\* processor step: frame_count advances by exactly 1 per message.
C30_OneStepPerMessage ==
    [][call'.op = "_handle_lcm_message" => frame_count' = frame_count + 1]_vars

\* The fields of a ServeReport.
ReportFields == {"max_speed", "peak_height", "landing_x", "landing_y", "duration"}

\* C29: the report returned when a capture is closed with enough points has
\* exactly the fields max_speed, peak_height, landing_x, landing_y and
\* duration, whichever stop path produced it.
C29_ReportFields ==
    (/\ call.op \in {"stop_serve_session", "stop_serve_evaluation",
                     "get_serve_features"}
     /\ report # None) =>
        DOMAIN report = ReportFields


\* C31: a rejected sample leaves last_valid_time where it was, so a sample
\* stamped more than the timeout after last_valid_time is always accepted as
\* a new session and becomes the last valid sample; a rejected sample at or
\* after last_valid_time lies at most the timeout after it, so a run of
\* rejections in a nondecreasing stream spans at most 0.5 s.
C31_RejectionNeverLocksOut ==
    [][call'.op = "process" =>
         /\ call'.timestamp - last_valid_time > timeout_threshold =>
                /\ call'.is_new_session
                /\ ~call'.rejected
                /\ last_valid_time' = call'.timestamp
         /\ call'.rejected =>
                /\ last_valid_time' = last_valid_time
                /\ call'.timestamp >= last_valid_time =>
                       call'.timestamp - last_valid_time <= timeout_threshold]_vars

\* C31 witness: the third sample of a stream, 534 ms after the last accepted
\* one and more than max_jump_distance from it, was accepted as a new session.
C31_Witness ==
    /\ Accepted
    /\ frame_count = 3
    /\ call.is_new_session
    /\ call.elapsed = <<534>>
    /\ call.raw_pos = <<900, 1201, 79>>
    /\ last_valid_time = 567
    /\ Norm(velocity) * default_dt > max_jump_distance * 1000


\* C32: in a stream with nondecreasing timestamps and no reset, once a sample
\* has been accepted the filter's position smoother holds last_valid_pos and
\* the filter's stored timestamp is last_valid_time.
C32_FilterTracksLastValid ==
    last_valid_pos # None =>
        /\ one_euro_filter.x_filter.s = last_valid_pos
        /\ one_euro_filter.last_timestamp = <<last_valid_time>>

\* C32 witness: a sample of a continuing session was smoothed to a position
\* other than the raw one, and the smoother and the stored timestamp are
\* those of the processor's last valid sample.
C32_Witness ==
    /\ Accepted
    /\ ~call.is_new_session
    /\ call.dt > 0
    /\ ret.pos # call.raw_pos
    /\ one_euro_filter.x_filter.s = ret.pos
    /\ last_valid_pos = ret.pos
    /\ one_euro_filter.last_timestamp = <<call.timestamp>>
    /\ last_valid_time = call.timestamp


\* C33: a call in which the trend or the landing analyzer raises leaves the
\* velocity, the filter, last_valid_pos, last_valid_time, prev_pos and
\* prev_time as they were before the call; only the frame counter moves.
C33_FailedCallKeepsState ==
    [][(call'.op = "process" /\ call'.raised # "none") =>
         /\ velocity' = velocity
         /\ one_euro_filter' = one_euro_filter
         /\ last_valid_pos' = last_valid_pos
         /\ last_valid_time' = last_valid_time
         /\ prev_pos' = prev_pos
         /\ prev_time' = prev_time
         /\ frame_count' = frame_count + 1]_vars


\* C34: an auto-stop scheduled by a landing closes only the capture window in
\* which that landing was detected.  The landing sample is buffered before
\* the stop is scheduled, so a window closed by an auto-stop holds a captured
\* point below the landing height; a window armed after the landing does not
\* hold it and is never closed by that auto-stop.
C34_AutoStopClosesItsOwnWindow ==
    [][(stop_timers' = stop_timers - 1 /\ is_evaluating_serve) =>
         \E i \in DOMAIN serve_data : serve_data[i].pos[3] < landing_height]_vars


\* The worker thread is inside lcm_instance.handle_timeout(100), the handler
\* it dispatches to included.
WorkerInHandleTimeout ==
    worker_pc \in {"poll", "handler", "step1", "handler2", "step2"}

\* The UI thread is inside lcm_instance.handle_timeout(10).
UiInHandleTimeout == ui_pc.at \in {"health_poll", "check_poll"}

C36_WorkerStopsAndStaysStopped ==
    /\ ~lcm_running ~> worker_pc = "off"
    /\ [][(worker_pc = "off" /\ worker_pc' # "off") => lcm_running']_vars

\* C36 witness: a restart scheduled by a worker that had ended unexpectedly
\* fired after stop_lcm_subscription; _restart_lcm_worker started no thread
\* and the worker is gone.
C36_Witness ==
    /\ call.op = "_restart_lcm_worker"
    /\ ~lcm_running
    /\ ~lcm_health_timer
    /\ restart_timers = 0
    /\ worker_pc = "off"


\* C37: when the handler takes up a message while data_source is not
\* "real_time", it returns at once: the processor (frame_count included),
\* the recorder's counter, both capture buffers, the pending auto-stops and
\* the last report are as before, and no analyzer is called.
C37_NonRealTimeMessageIgnored ==
    [][(worker_pc = "handler" /\ data_source # "real_time"
        /\ worker_pc' # worker_pc) =>
         /\ UNCHANGED <<last_valid_pos, last_valid_time, velocity, prev_pos,
                        prev_time, frame_count, one_euro_filter, shot_count>>
         /\ UNCHANGED <<serve_data, current_serve_buffer, stop_timers, report>>
         /\ call'.trend_calls = 0
         /\ call'.landing_calls = 0
         /\ call'.landing_resets = 0
         /\ worker_pc' = "loop"]_vars

\* C37 witness: after show_server_config had switched the data source, a
\* message was ignored by a processor that had counted two frames and held
\* a last valid sample.
C37_Witness ==
    /\ call.op = "_handle_lcm_message"
    /\ call.raw_pos = None
    /\ data_source = "remote_live"
    /\ frame_count = 2
    /\ last_valid_pos # None
    /\ worker_pc = "loop"


\* C38: the OneEuroFilter class of ball_trajectory_simulator.py and the one
\* of trajectory_processor.py are equivalent: built with the same
\* min_cutoff, beta and d_cutoff and fed the same calls, they return the
\* same output on every call, and on every smoothing call they use the same
\* coefficients.
C38_FilterClassesEquivalent ==
    call.op = "twin_filter" =>
        /\ call.filtered_pos = ret.pos
        /\ (call.elapsed # None /\ call.elapsed[1] > 0) =>
               /\ sim_one_euro_filter.x_filter.alpha = one_euro_filter.x_filter.alpha
               /\ sim_one_euro_filter.dx_filter.alpha = one_euro_filter.dx_filter.alpha

====
